---- MODULE Spec2Model ----
(***************************************************************************)
(* A model of kamaki's configuration layer (kamaki/cli/config.py), of its  *)
(* command registry and dispatcher (kamaki/cli.py) and of its storage and  *)
(* compute clients (kamaki/clients).                                       *)
(*                                                                         *)
(* Python values are records [kind, v]: None, a string (the sequence of    *)
(* its words and blanks) or a list.  A dict is a function whose DOMAIN is  *)
(* the set of its keys.                                                    *)
(***************************************************************************)
EXTENDS Integers, Sequences, FiniteSets, TLC

VARIABLES
    config,             \* the Config object: [_sections, _overrides]
    disk,               \* the lines of the file at Config.path, or NoFile
    _commands,          \* the registry: group -> (name -> class), ordered
    argv,               \* sys.argv
    pc,                 \* where main is; "idle" when no run is modelled
    parser,             \* the OptionParser: [usage, options]
    options,            \* the parsed options, a dict from dest to value
    args,               \* the positional arguments of the last parse
    locals,             \* main's group and name
    apis,               \* the enabled APIs, a list of names
    available_groups,   \* the keys of the visible groups
    available_commands, \* the names of the visible commands of the group
    cmd,                \* the command instance: [cls, client]
    stdout,             \* what was printed
    log,                \* the records logged: [level, msg]
    calls,              \* how many times cmd.main was called
    outcome,            \* what the call came to: "return" or the exception
    status,             \* how the process ended: [code, raised]
    registered,         \* the decorations done: [c, group, name, description,
                        \* syntax], in order
    client,             \* an API client: [class, account, container]
    requests,           \* the HTTP requests its last call issued, in order
    reply,              \* what the last call came to: [method, exc, error]
    mode,               \* the permission bits of the file, where Config.write
                        \* is followed step by step
    prior,              \* the lines of the file when the write started
    runs,               \* the runs of main that ended before this one:
                        \* [argv, status, stdout]
    client_calls        \* how many calls cmd.main made on cmd.client

cfgvars == <<config, disk>>
mainvars == <<_commands, argv, pc, parser, options, args, locals, apis, available_groups,
              available_commands, cmd, stdout, log, calls, outcome,
              status>>
\* What neither main nor the Config object touches
regvars == <<registered>>
clientvars == <<client, requests, reply>>
filevars == <<mode, prior>>
runvars == <<runs>>
callvars == <<client_calls>>
others == <<regvars, clientvars, filevars, runvars, callvars>>
vars == <<config, disk, _commands, argv, pc, parser, options, args, locals, apis,
          available_groups, available_commands, cmd, stdout, log, calls,
          outcome, status, registered, client, requests, reply,
          mode, prior, runs, client_calls>>

----------------------------------------------------------------------------
(* Python values *)

None == [kind |-> "none", v |-> <<>>]
Str(words) == [kind |-> "str", v |-> words]
List(items) == [kind |-> "list", v |-> items]

EmptyDict == <<>>

\* d.get(k)
DictGet(d, k) == IF k \in DOMAIN d THEN d[k] ELSE None

\* d.get(k, {})
DictGetDict(d, k) == IF k \in DOMAIN d THEN d[k] ELSE EmptyDict

\* d[k] = x
DictPut(d, k, x) == [y \in DOMAIN d \cup {k} |-> IF y = k THEN x ELSE d[y]]

\* del d[k]
DictDel(d, k) == [y \in DOMAIN d \ {k} |-> d[y]]

Return(x) == [exc |-> "", val |-> x]
Raise(e) == [exc |-> e, val |-> None]

----------------------------------------------------------------------------
(* kamaki/cli/config.py *)

DEFAULTS ==
    [global |-> [colors |-> Str(<<"on">>), token |-> Str(<<>>)],
     config |-> [cli |-> Str(<<"config_cli">>),
                 description |-> Str(<<"Configuration", " ", "commands">>)]]

\* RawConfigParser.optionxform: option names are stored and looked up in
\* lower case.
LowerCase == [Token |-> "token"]
optionxform(option) ==
    IF option \in DOMAIN LowerCase THEN LowerCase[option] ELSE option

\* RawConfigParser.get on a parser constructed without defaults.
RawConfigParser_get(self, section, option) ==
    LET opt == optionxform(option) IN
    IF section \notin DOMAIN self._sections THEN Raise("NoSectionError")
    ELSE IF opt \in DOMAIN self._sections[section]
         THEN Return(self._sections[section][opt])
         ELSE Raise("NoOptionError")

\* Config_get with the file asked before the overrides.
Config_get_FileFirst(self, defaults, section, option) ==
    LET value == DictGet(DictGetDict(self._overrides, section), option)
        r == RawConfigParser_get(self, section, option)
    IN  IF r.exc = "" THEN r.val
        ELSE IF value # None THEN value
        ELSE DictGet(DictGetDict(defaults, section), option)

\* Config_get that takes an override of None for a value.
Config_get_NoneMasks(self, defaults, section, option) ==
    LET value == DictGet(DictGetDict(self._overrides, section), option)
        r == RawConfigParser_get(self, section, option)
    IN  IF section \in DOMAIN self._overrides
            /\ option \in DOMAIN self._overrides[section]
        THEN value
        ELSE IF r.exc = "" THEN r.val
        ELSE DictGet(DictGetDict(defaults, section), option)

Config_get(self, defaults, section, option) ==
    LET value == DictGet(DictGetDict(self._overrides, section), option)
        r == RawConfigParser_get(self, section, option)
    IN  IF value # None THEN value
        ELSE IF r.exc = "" THEN r.val
        ELSE DictGet(DictGetDict(defaults, section), option)

\* Config_set that also forgets the override of the option it sets.
Config_set_DropsOverride(self, section, option, value) ==
    LET secs == IF section \notin DOMAIN self._sections
                THEN DictPut(self._sections, section, EmptyDict)
                ELSE self._sections
    IN  [_sections |->
            DictPut(secs, section,
                    DictPut(secs[section], optionxform(option), value)),
         _overrides |->
            [s \in DOMAIN self._overrides |->
                IF s = section THEN DictDel(self._overrides[s], option)
                ELSE self._overrides[s]]]

Config_set(self, section, option, value) ==
    LET secs == IF section \notin DOMAIN self._sections
                THEN DictPut(self._sections, section, EmptyDict)
                ELSE self._sections
    IN  [self EXCEPT !._sections =
            DictPut(secs, section,
                    DictPut(secs[section], optionxform(option), value))]

Config_remove_option(self, section, option) ==
    IF section \notin DOMAIN self._sections THEN self
    ELSE [self EXCEPT !._sections =
            DictPut(self._sections, section,
                    DictDel(self._sections[section], optionxform(option)))]

Config_override(self, section, option, value) ==
    [self EXCEPT !._overrides =
        DictPut(self._overrides, section,
                DictPut(DictGetDict(self._overrides, section), option, value))]

\* The file written by Config.write: the header line, then for every section
\* its "[section]" line and one "key = value" line per option.
NoFile == {[line |-> "absent", section |-> "", key |-> "", value |-> None]}
HEADER == [line |-> "#", section |-> "", key |-> "", value |-> None]
SectionLine(s) == [line |-> "[]", section |-> s, key |-> "", value |-> None]
OptionLine(s, k, x) == [line |-> "=", section |-> s, key |-> k, value |-> x]

RawConfigParser_write(self) ==
    {SectionLine(s) : s \in DOMAIN self._sections}
    \cup UNION {{OptionLine(s, k, self._sections[s][k]) :
                    k \in DOMAIN self._sections[s]} :
                s \in DOMAIN self._sections}

Config_write(self) == {HEADER} \cup RawConfigParser_write(self)

\* RawConfigParser.read: a missing file is skipped; the options of the file
\* are stored under their lower-case names over what the parser holds.
FileSections(file) == {l.section : l \in {x \in file : x.line = "[]"}}
FileOptions(file, s) ==
    {optionxform(l.key) : l \in {x \in file : x.line = "=" /\ x.section = s}}
FileValue(file, s, k) ==
    (CHOOSE l \in file :
        l.line = "=" /\ l.section = s /\ optionxform(l.key) = k).value

RawConfigParser_read(self, file) ==
    IF file = NoFile THEN self
    ELSE [self EXCEPT !._sections =
            [s \in DOMAIN self._sections \cup FileSections(file) |->
                LET old == DictGetDict(self._sections, s) IN
                [k \in DOMAIN old \cup FileOptions(file, s) |->
                    IF k \in FileOptions(file, s)
                    THEN FileValue(file, s, k) ELSE old[k]]]]

\* Config._load_defaults: every default is set into the parser.
Config_load_defaults(self) ==
    [self EXCEPT !._sections =
        [s \in DOMAIN DEFAULTS |->
            [k \in {optionxform(o) : o \in DOMAIN DEFAULTS[s]} |->
                DEFAULTS[s][CHOOSE o \in DOMAIN DEFAULTS[s] :
                                optionxform(o) = k]]]]

Config_init(file) ==
    RawConfigParser_read(
        Config_load_defaults([_sections |-> EmptyDict,
                              _overrides |-> EmptyDict]),
        file)

----------------------------------------------------------------------------
(* kamaki/cli.py: the command classes *)

\* A command class as the decorator receives it: the words of its name (the
\* name is these joined by "_"), the api argument of its decorator, the
\* parameters of main after self (each the words of its name), how many of
\* them have a default, the options its update_parser adds, the parameters
\* main converts with int(), and its docstring.
Class(name, api, params, ndefaults, opts, ints, doc) ==
    [__name__ |-> name, api |-> api, params |-> params,
     ndefaults |-> ndefaults, options |-> opts, ints |-> ints,
     __doc__ |-> doc]

CLASSES == <<
    Class(<<"config", "list">>, None, <<>>, 0, {}, {}, "list configuration options"),
    Class(<<"config", "get">>, None, <<<<"key">>>>, 0, {}, {}, "get a configuration option"),
    Class(<<"config", "set">>, None, <<<<"key">>, <<"val">>>>, 0, {}, {}, "set a configuration option"),
    Class(<<"config", "del">>, None, <<<<"key">>>>, 0, {}, {}, "delete a configuration option"),
    Class(<<"server", "list">>, Str(<<"nova">>), <<>>, 0, {"-l"}, {}, "list servers"),
    Class(<<"server", "info">>, Str(<<"nova">>), <<<<"server", "id">>>>, 0, {}, {1}, "get server details"),
    Class(<<"server", "create">>, Str(<<"nova">>), <<<<"name">>, <<"flavor", "id">>, <<"image", "id">>>>, 0, {"--personality"}, {2}, "create server"),
    Class(<<"server", "rename">>, Str(<<"nova">>), <<<<"server", "id">>, <<"new", "name">>>>, 0, {}, {1}, "update server name"),
    Class(<<"server", "delete">>, Str(<<"nova">>), <<<<"server", "id">>>>, 0, {}, {1}, "delete server"),
    Class(<<"server", "reboot">>, Str(<<"nova">>), <<<<"server", "id">>>>, 0, {"-f"}, {1}, "reboot server"),
    Class(<<"server", "start">>, Str(<<"synnefo">>), <<<<"server", "id">>>>, 0, {}, {1}, "start server"),
    Class(<<"server", "shutdown">>, Str(<<"synnefo">>), <<<<"server", "id">>>>, 0, {}, {1}, "shutdown server"),
    Class(<<"server", "console">>, Str(<<"synnefo">>), <<<<"server", "id">>>>, 0, {}, {1}, "get a VNC console"),
    Class(<<"server", "firewall">>, Str(<<"synnefo">>), <<<<"server", "id">>, <<"profile">>>>, 0, {}, {1}, "set the firewall profile"),
    Class(<<"server", "addr">>, Str(<<"synnefo">>), <<<<"server", "id">>, <<"network">>>>, 1, {}, {1}, "list server addresses"),
    Class(<<"server", "meta">>, Str(<<"nova">>), <<<<"server", "id">>, <<"key">>>>, 1, {}, {1}, "get server metadata"),
    Class(<<"server", "addmeta">>, Str(<<"nova">>), <<<<"server", "id">>, <<"key">>, <<"val">>>>, 0, {}, {1}, "add server metadata"),
    Class(<<"server", "setmeta">>, Str(<<"nova">>), <<<<"server", "id">>, <<"key">>, <<"val">>>>, 0, {}, {1}, "update server metadata"),
    Class(<<"server", "delmeta">>, Str(<<"nova">>), <<<<"server", "id">>, <<"key">>>>, 0, {}, {1}, "delete server metadata"),
    Class(<<"server", "stats">>, Str(<<"synnefo">>), <<<<"server", "id">>>>, 0, {}, {1}, "get server statistics"),
    Class(<<"flavor", "list">>, Str(<<"nova">>), <<>>, 0, {"-l"}, {}, "list flavors"),
    Class(<<"flavor", "info">>, Str(<<"nova">>), <<<<"flavor", "id">>>>, 0, {}, {1}, "get flavor details"),
    Class(<<"image", "list">>, Str(<<"nova">>), <<>>, 0, {"-l"}, {}, "list images"),
    Class(<<"image", "info">>, Str(<<"nova">>), <<<<"image", "id">>>>, 0, {}, {}, "get image details"),
    Class(<<"image", "create">>, Str(<<"nova">>), <<<<"server", "id">>, <<"name">>>>, 0, {}, {1}, "create image"),
    Class(<<"image", "delete">>, Str(<<"nova">>), <<<<"image", "id">>>>, 0, {}, {}, "delete image"),
    Class(<<"image", "meta">>, Str(<<"nova">>), <<<<"image", "id">>, <<"key">>>>, 1, {}, {}, "get image metadata"),
    Class(<<"image", "addmeta">>, Str(<<"nova">>), <<<<"image", "id">>, <<"key">>, <<"val">>>>, 0, {}, {}, "add image metadata"),
    Class(<<"image", "setmeta">>, Str(<<"nova">>), <<<<"image", "id">>, <<"key">>, <<"val">>>>, 0, {}, {}, "update image metadata"),
    Class(<<"image", "delmeta">>, Str(<<"nova">>), <<<<"image", "id">>, <<"key">>>>, 0, {}, {}, "delete image metadata"),
    Class(<<"network", "list">>, Str(<<"synnefo">>), <<>>, 0, {"-l"}, {}, "list networks"),
    Class(<<"network", "create">>, Str(<<"synnefo">>), <<<<"name">>>>, 0, {}, {}, "create a network"),
    Class(<<"network", "info">>, Str(<<"synnefo">>), <<<<"network", "id">>>>, 0, {}, {}, "get network details"),
    Class(<<"network", "rename">>, Str(<<"synnefo">>), <<<<"network", "id">>, <<"new", "name">>>>, 0, {}, {}, "update network name"),
    Class(<<"network", "delete">>, Str(<<"synnefo">>), <<<<"network", "id">>>>, 0, {}, {}, "delete a network"),
    Class(<<"network", "connect">>, Str(<<"synnefo">>), <<<<"server", "id">>, <<"network", "id">>>>, 0, {}, {}, "connect a server to a network"),
    Class(<<"network", "disconnect">>, Str(<<"synnefo">>), <<<<"server", "id">>, <<"network", "id">>>>, 0, {}, {}, "disconnect a server from a network"),
    Class(<<"glance", "list">>, Str(<<"glance">>), <<>>, 0, {}, {}, "list images") >>

----------------------------------------------------------------------------
(* kamaki/cli.py: the command decorator and the registry _commands *)

RECURSIVE Join(_, _)
\* sep.join(words)
Join(words, sep) ==
    IF words = <<>> THEN ""
    ELSE IF Len(words) = 1 THEN words[1]
    ELSE words[1] \o sep \o Join(Tail(words), sep)

\* A dict key that may be None: None, or the string wrapped as a value.
Key(s) == Str(<<s>>)

\* x or y, for a decorator argument x: None, or a string wrapped as Key(s).
Or(x, y) == IF x = None \/ x = Key("") THEN y ELSE x
OrStr(x, s) == IF x = None \/ x = Key("") THEN s ELSE x.v[1]

\* The syntax string generated from main's parameters: the required ones as
\* <name>, then the optional ones as [name], underscores shown as blanks.
RenderAll(params, open, close) ==
    Join([i \in DOMAIN params |-> open \o Join(params[i], " ") \o close], " ")

\* GenerateSyntax that takes no parameter to have a default.
GenerateSyntax_AllRequired(params, ndefaults) ==
    LET n == Len(params)
        required == RenderAll(SubSeq(params, 1, n), "<", ">")
        optional == RenderAll(SubSeq(params, n + 1, Len(params)), "[", "]")
    IN  Join(SelectSeq(<<required, optional>>, LAMBDA x : x # ""), " ")

GenerateSyntax(params, ndefaults) ==
    LET n == Len(params) - ndefaults
        required == RenderAll(SubSeq(params, 1, n), "<", ">")
        optional == RenderAll(SubSeq(params, n + 1, Len(params)), "[", "]")
    IN  Join(SelectSeq(<<required, optional>>, LAMBDA x : x # ""), " ")

\* OrderedDict as the sequence of its (key, value) items in insertion order.
Keys(od) == [i \in DOMAIN od |-> od[i].key]
HasKey(od, k) == \E i \in DOMAIN od : od[i].key = k
Lookup(od, k) == od[CHOOSE i \in DOMAIN od : od[i].key = k].value
\* Store that leaves alone the value of a key the dict has.
Store_KeepsFirst(od, k, x) ==
    IF HasKey(od, k) THEN od
    ELSE Append(od, [key |-> k, value |-> x])

Store(od, k, x) ==
    IF HasKey(od, k)
    THEN [i \in DOMAIN od |-> IF od[i].key = k
                              THEN [key |-> k, value |-> x] ELSE od[i]]
    ELSE Append(od, [key |-> k, value |-> x])

\* command(api, group, name, description, syntax) applied to the class c,
\* with the registry before it; the value is the registry after it.
decorator(commands, c, group, name, description, syntax) ==
    LET sep == Len(c.__name__) > 1
        grp == IF sep THEN Key(c.__name__[1]) ELSE None
        nam == IF sep THEN Join(Tail(c.__name__), "_")
               ELSE Join(c.__name__, "_")
        cls == [api |-> c.api,
                group |-> Or(group, grp),
                name |-> OrStr(name, nam),
                description |-> OrStr(description, c.__doc__),
                syntax |-> IF syntax = None
                           THEN GenerateSyntax(c.params, c.ndefaults)
                           ELSE syntax.v[1],
                params |-> c.params,
                ndefaults |-> c.ndefaults,
                options |-> c.options,
                ints |-> c.ints]
        grps == IF ~HasKey(commands, cls.group)
                THEN Store(commands, cls.group, <<>>)
                ELSE commands
    IN  Store(grps, cls.group, Store(Lookup(grps, cls.group), cls.name, cls))

RECURSIVE Registered(_, _)
\* The registry once the first n classes of the module are decorated; every
\* decorator of the module gives the api argument alone.
Registered(classes, n) ==
    IF n = 0 THEN <<>>
    ELSE LET before == Registered(classes, n - 1) IN
         IF Len(before) > n THEN before
         ELSE decorator(before, classes[n], None, None, None, None)

\* The registry once the module is imported.
Imported == Registered(CLASSES, Len(CLASSES))

\* Visible without its first test: a command with no API is held to need one.
Visible_TaggedOnly(cls, enabled) ==
    \E i \in DOMAIN enabled : Key(enabled[i]) = cls.api

\* cls.api is None or cls.api in apis
Visible(cls, enabled) ==
    cls.api = None \/ \E i \in DOMAIN enabled : Key(enabled[i]) = cls.api

\* Lines 583-588: the groups with a command of an enabled API.
AvailableGroups(commands, enabled) ==
    LET has(i) == \E j \in DOMAIN commands[i].value :
                      Visible(commands[i].value[j].value, enabled)
    IN  Keys(SelectSeq([i \in DOMAIN commands |->
                            [key |-> commands[i].key, keep |-> has(i)]],
                       LAMBDA g : g.keep))

\* Lines 603-607: the commands of the group with an enabled API.
AvailableCommands(commands, group, enabled) ==
    Keys(SelectSeq(Lookup(commands, group),
                   LAMBDA item : Visible(item.value, enabled)))

----------------------------------------------------------------------------
(* optparse, as main uses it *)

True == [kind |-> "bool", v |-> <<"True">>]
False == [kind |-> "bool", v |-> <<"False">>]

\* The options of the parser main builds (lines 540-555) and those the
\* update_parser methods add: dest, action and default of each.
OPTIONS ==
    [x \in {"--help", "-v", "-d", "-l", "-f"} |->
        [dest |-> CASE x = "--help" -> "help" [] x = "-v" -> "verbose"
                    [] x = "-d" -> "debug" [] x = "-l" -> "detail"
                    [] x = "-f" -> "hard",
         action |-> "store_true", default |-> False]]
    @@ [x \in {"--compute-url", "--images-url", "--token"} |->
        [dest |-> CASE x = "--compute-url" -> "compute_url"
                    [] x = "--images-url" -> "images_url"
                    [] x = "--token" -> "token",
         action |-> "store", default |-> None]]
    @@ [x \in {"--api"} |->
        [dest |-> "apis", action |-> "append", default |-> None]]
    @@ [x \in {"--personality"} |->
        [dest |-> "personalities", action |-> "append",
         default |-> List(<<>>)]]

MainOptions ==
    {"--help", "--api", "--compute-url", "--images-url", "--token", "-v", "-d"}

\* The command-line words that start with "-": the option each names and,
\* for "--opt=value", the value.  Every other word is positional.
TOKENS ==
    [x \in {"--help", "-l", "--bogus"} |-> [opt |-> x, value |-> ""]]
    @@ [x \in {"--api=nova"} |-> [opt |-> "--api", value |-> "nova"]]
    @@ [x \in {"--personality="} |-> [opt |-> "--personality", value |-> ""]]
    @@ [x \in {"--personality=motd"} |->
        [opt |-> "--personality", value |-> "motd"]]
    @@ [x \in {"--personality=nofile"} |->
        [opt |-> "--personality", value |-> "nofile"]]
    @@ [x \in {"--personality=,/etc/motd"} |->
        [opt |-> "--personality", value |-> ",/etc/motd"]]
    @@ [x \in {"--personality=motd,/etc/motd"} |->
        [opt |-> "--personality", value |-> "motd,/etc/motd"]]

\* The option words tried in the runs of main that are typed word by word
Typed == {"--help", "-l", "--bogus", "--api=nova"}

Defaults(opts) ==
    [d \in {OPTIONS[o].dest : o \in opts} |->
        OPTIONS[CHOOSE o \in opts : OPTIONS[o].dest = d].default]

\* Option.take_action
TakeAction(values, tok) ==
    LET o == OPTIONS[TOKENS[tok].opt] IN
    CASE o.action = "store_true" -> DictPut(values, o.dest, True)
      [] o.action = "store" ->
            DictPut(values, o.dest, Str(<<TOKENS[tok].value>>))
      [] o.action = "append" ->
            DictPut(values, o.dest,
                    List((IF values[o.dest] = None THEN <<>>
                          ELSE values[o.dest].v) \o <<TOKENS[tok].value>>))

RECURSIVE ProcessArgs(_, _, _, _)
\* OptionParser._process_args: positional words go to largs, options act on
\* values, and a word that names no option of the parser ends the processing
\* with an error, consumed, the words after it left in rargs.
ProcessArgs(opts, largs, rargs, values) ==
    IF rargs = <<>>
    THEN [largs |-> largs, rargs |-> rargs, values |-> values, bad |-> FALSE]
    ELSE LET arg == Head(rargs) IN
         IF arg \notin DOMAIN TOKENS
         THEN ProcessArgs(opts, Append(largs, arg), Tail(rargs), values)
         ELSE IF TOKENS[arg].opt \notin opts
         THEN [largs |-> largs, rargs |-> Tail(rargs), values |-> values,
               bad |-> TRUE]
         ELSE ProcessArgs(opts, largs, Tail(rargs), TakeAction(values, arg))

\* OptionParser.parse_args(sys.argv) of a parser with these options.  error
\* is the parser's error method: "exit" (print the usage to stderr and
\* raise SystemExit(2)) or "ignore" (the lambda of line 560).
parse_args(opts, argv_, error) ==
    LET r == ProcessArgs(opts, <<>>, argv_, Defaults(opts)) IN
    IF r.bad /\ error = "exit" THEN Raise("SystemExit")
    ELSE Return([options |-> r.values, args |-> r.largs \o r.rargs])

----------------------------------------------------------------------------
(* The configuration object main constructs.  cli.py imports a Config with  *)
(* flat keys, Config(path, env, defaults), get(key), set(key, val),         *)
(* delete(key) and override(key, val), from a module that is not among the  *)
(* sources; it is modelled as the layered Config above on the one section   *)
(* "global", with CONFIG_DEFAULTS as its defaults.                          *)

CONFIG_DEFAULTS ==
    [apis |-> Str(<<"nova", " ", "synnefo", " ", "glance", " ", "plankton">>),
     token |-> Str(<<>>),
     compute_url |-> Str(<<"https://okeanos.grnet.gr/api/v1">>),
     images_url |-> Str(<<"https://okeanos.grnet.gr/plankton">>)]

ConfigKeys == <<"apis", "token", "compute_url", "images_url">>

Corrupt == {[line |-> "corrupt", section |-> "", key |-> "", value |-> None]}

FlatConfig(file) ==
    IF file = Corrupt THEN Raise("ConfigError")
    ELSE Return(RawConfigParser_read([_sections |-> EmptyDict,
                                      _overrides |-> EmptyDict], file))

flat_get(self, key) == Config_get(self, [global |-> CONFIG_DEFAULTS], "global", key)
flat_set(self, key, val) == Config_set(self, "global", key, val)
flat_delete(self, key) == Config_remove_option(self, "global", key)
flat_override(self, key, val) == Config_override(self, "global", key, val)

----------------------------------------------------------------------------
(* kamaki/cli.py: main *)

Running == [code |-> -1, raised |-> ""]
NoClient == [class |-> "", account |-> None, container |-> None]
NoReply == [method |-> "", exc |-> "", error |-> None]
\* sys.exit(0), whatever main returned.
Exited_AlwaysZero(ret) == [code |-> 0, raised |-> ""]

\* sys.exit(main() or 0), lines 665-666
Exited(ret) == [code |-> IF ret = None THEN 0 ELSE ret.v[1], raised |-> ""]
PyInt(n) == [kind |-> "int", v |-> <<n>>]
\* An exception leaves main: the interpreter prints the traceback and the
\* exit status is 1; SystemExit(2) carries its own status.
Uncaught(e) == [code |-> IF e = "SystemExit" THEN 2 ELSE 1, raised |-> e]

NoCmd == [cls |-> None, client |-> None]
NoConfig == [_sections |-> EmptyDict, _overrides |-> EmptyDict]

Help(p) == [print |-> "help", usage |-> p.usage, items |-> <<>>]
Groups(groups) == [print |-> "groups", usage |-> "", items |-> groups]
\* print_commands: the commands of the group in registry order, those in
\* commands alone
Commands(group, commands) ==
    [print |-> "commands", usage |-> "",
     items |-> SelectSeq(Keys(Lookup(_commands, group)),
                         LAMBDA n : \E i \in DOMAIN commands : commands[i] = n)]
Value(x) == [print |-> "value", usage |-> "", items |-> <<x>>]

\* s.split() of a string; of anything else an AttributeError
split(x) ==
    IF x.kind = "str" THEN Return(SelectSeq(x.v, LAMBDA w : w # " "))
    ELSE Raise("AttributeError")

RECURSIVE OverrideAll(_, _, _)
\* Lines 577-578: every key of CONFIG_DEFAULTS is overridden with the value
\* of its option, None when the option was not given.
OverrideAll(self, keys, opts) ==
    IF keys = <<>> THEN self
    ELSE OverrideAll(flat_override(self, Head(keys), opts[Head(keys)]),
                     Tail(keys), opts)

\* The words int() converts
Numerals == {"42"}

ClientError == [message |-> "message", details |-> "details"]

\* personality.split(','), of the values tried
split_comma(x) ==
    CASE x = ",/etc/motd" -> <<"", "/etc/motd">>
      [] x = "motd,/etc/motd" -> <<"motd", "/etc/motd">>
      [] OTHER -> <<x>>

\* os.path.exists: the paths that name a file, each one the user can read
Existing == {"motd"}

\* Lines 206-217 of server_create.main: the first personality whose path is
\* empty or names no file ends main with the value 1, an error logged.
BadPersonality(personalities) ==
    \E i \in DOMAIN personalities :
        LET path == split_comma(personalities[i])[1] IN
        path = "" \/ path \notin Existing

\* cmd.main(*a) of an instance of cls with the options opts: a TypeError
\* when the number of arguments does not fit the signature, the value 1
\* when server create is given a personality it cannot read, a ValueError
\* when main converts a word that is no number, otherwise what the body
\* does; remote is what the client's request comes to, and client_calls
\* counts the calls main makes on self.client.
Handler(cls, a, self, opts, remote) ==
    LET done(exc, val, cfg, out) ==
            [exc |-> exc, val |-> val, config |-> cfg, out |-> out,
             log |-> <<>>, client_calls |-> 0]
        called(r) == [r EXCEPT !.client_calls = 1]
    IN  IF Len(a) < Len(cls.params) - cls.ndefaults \/ Len(a) > Len(cls.params)
        THEN done("TypeError", None, self, <<>>)
        ELSE IF /\ "--personality" \in cls.options
                /\ BadPersonality(opts["personalities"].v)
        THEN [done("", PyInt(1), self, <<>>) EXCEPT
                !.log = <<[level |-> "error", msg |-> "personality"]>>]
        ELSE IF \E i \in cls.ints : a[i] \notin Numerals
        THEN done("ValueError", None, self, <<>>)
        ELSE IF cls.api # None
        THEN IF remote = "ClientError"
             THEN called(done("ClientError", None, self, <<>>))
             ELSE called(done("", None, self, <<Value(Str(<<"reply">>))>>))
        ELSE CASE cls.name = "get" ->
                    done("", None, self,
                         IF flat_get(self, a[1]) # None
                         THEN <<Value(flat_get(self, a[1]))>> ELSE <<>>)
               [] cls.name = "set" ->
                    done("", None, flat_set(self, a[1], Str(<<a[2]>>)), <<>>)
               [] cls.name = "del" ->
                    done("", None, flat_delete(self, a[1]), <<>>)
               [] OTHER ->
                    LET sorted == <<"apis", "compute_url", "images_url",
                                    "token">>
                    IN  done("", None, self,
                             [i \in DOMAIN sorted |->
                                Value(flat_get(self, sorted[i]))])

Remotes(cls) == IF cls.api # None THEN {"ok", "ClientError"} ELSE {"ok"}

Exit(st) ==
    /\ pc' = "exit"
    /\ status' = st

\* LoadConfig that logs the ConfigError and goes on with an empty
\* configuration.
LoadConfig_GoesOn(file) ==
    LET c == FlatConfig(file) IN
    IF c.exc = "ConfigError"
    THEN [returns |-> FALSE, ret |-> None, config |-> NoConfig,
          log |-> <<[level |-> "error", msg |-> c.exc]>>]
    ELSE [returns |-> FALSE, ret |-> None, config |-> c.val, log |-> <<>>]

\* Lines 571-575: the configuration is constructed; a ConfigError is logged
\* and main returns 1.
LoadConfig(file) ==
    LET c == FlatConfig(file) IN
    IF c.exc = "ConfigError"
    THEN [returns |-> TRUE, ret |-> PyInt(1), config |-> NoConfig,
          log |-> <<[level |-> "error", msg |-> c.exc]>>]
    ELSE [returns |-> FALSE, ret |-> None, config |-> c.val, log |-> <<>>]

\* Lines 540-575: the preliminary parse, its errors ignored, and the
\* configuration.
Start ==
    /\ pc = "shell"
    /\ LET r == parse_args(MainOptions, argv, "ignore")
           c == LoadConfig(disk)
       IN
        /\ parser' = [usage |-> "%prog <group> <command> [options]",
                      options |-> MainOptions]
        /\ options' = r.val.options
        /\ args' = r.val.args
        /\ log' = log \o c.log
        /\ config' = c.config
        /\ IF c.returns
           THEN Exit(Exited(c.ret))
           ELSE /\ pc' = "override"
                /\ UNCHANGED status
    /\ UNCHANGED <<disk, _commands, argv, locals, apis, available_groups,
                   available_commands, cmd, stdout, calls, outcome>>

    /\ UNCHANGED others
\* Lines 577-588: the options override the configuration, and the enabled
\* APIs give the available groups.
Enable ==
    /\ pc = "override"
    /\ LET c == OverrideAll(config, ConfigKeys, options)
           r == split(flat_get(c, "apis"))
       IN
        /\ config' = c
        /\ IF r.exc # ""
           THEN /\ Exit(Uncaught(r.exc))
                /\ UNCHANGED <<apis, available_groups>>
           ELSE /\ apis' = r.val
                /\ available_groups' = AvailableGroups(_commands, r.val)
                /\ pc' = "group"
                /\ UNCHANGED status
    /\ UNCHANGED <<disk, _commands, argv, parser, options, args, locals,
                   available_commands, cmd, stdout, log, calls, outcome>>

    /\ UNCHANGED others
InSeq(x, seq) == \E i \in DOMAIN seq : seq[i] = x

\* Lines 590-609
ResolveGroup ==
    /\ pc = "group"
    /\ IF Len(args) < 2
       THEN /\ stdout' = stdout \o <<Help(parser), Groups(available_groups)>>
            /\ Exit(Exited(PyInt(0)))
            /\ UNCHANGED <<available_commands, parser, locals>>
       ELSE IF ~InSeq(Key(args[2]), available_groups)
       THEN /\ stdout' = stdout \o <<Help(parser), Groups(available_groups)>>
            /\ Exit(Exited(PyInt(1)))
            /\ UNCHANGED <<available_commands, parser>>
            /\ locals' = [locals EXCEPT !.group = args[2]]
       ELSE /\ locals' = [locals EXCEPT !.group = args[2]]
            /\ available_commands' =
                    AvailableCommands(_commands, Key(args[2]), apis)
            /\ parser' = [parser EXCEPT !.usage =
                            "%prog " \o args[2] \o " <command> [options]"]
            /\ pc' = "command"
            /\ UNCHANGED <<stdout, status>>
    /\ UNCHANGED <<config, disk, _commands, argv, options, args, apis, available_groups,
                   cmd, log, calls, outcome>>

    /\ UNCHANGED others
\* Lines 611-621
ResolveCommand ==
    /\ pc = "command"
    /\ IF Len(args) < 3
       THEN /\ stdout' = stdout \o <<Help(parser),
                            Commands(Key(locals.group), available_commands)>>
            /\ Exit(Exited(PyInt(0)))
            /\ UNCHANGED locals
       ELSE IF ~InSeq(args[3], available_commands)
       THEN /\ stdout' = stdout \o <<Help(parser),
                            Commands(Key(locals.group), available_commands)>>
            /\ Exit(Exited(PyInt(1)))
            /\ locals' = [locals EXCEPT !.name = args[3]]
       ELSE /\ locals' = [locals EXCEPT !.name = args[3]]
            /\ pc' = "parse"
            /\ UNCHANGED <<stdout, status>>
    /\ UNCHANGED <<config, disk, _commands, argv, parser, options, args, apis,
                   available_groups, available_commands, cmd, log, calls, outcome>>

    /\ UNCHANGED others
\* _commands[group][name]
Resolved == Lookup(Lookup(_commands, Key(locals.group)), locals.name)

\* Parse2 that goes on to the command when help is asked for.
Parse2_NoHelp ==
    /\ pc = "parse"
    /\ LET cls == Resolved
           syntax == IF cls.syntax # "" THEN cls.syntax \o " [options]"
                     ELSE "[options]"
           p == [usage |-> "%prog " \o locals.group \o " " \o locals.name
                           \o " " \o syntax,
                 options |-> parser.options \cup cls.options]
           r == parse_args(p.options, argv, "exit")
       IN  /\ parser' = p
           /\ IF r.exc # ""
              THEN /\ Exit(Uncaught(r.exc))
                   /\ UNCHANGED <<options, args, stdout>>
              ELSE /\ options' = r.val.options
                   /\ args' = r.val.args
                   /\ pc' = "client"
                   /\ UNCHANGED <<stdout, status>>
    /\ UNCHANGED <<config, disk, _commands, argv, locals, apis, available_groups,
                   available_commands, cmd, log, calls, outcome>>
    /\ UNCHANGED others

\* Lines 623-635: the usage of the command, the options of its update_parser,
\* and the parse whose errors end the process.
Parse2 ==
    /\ pc = "parse"
    /\ LET cls == Resolved
           syntax == IF cls.syntax # "" THEN cls.syntax \o " [options]"
                     ELSE "[options]"
           p == [usage |-> "%prog " \o locals.group \o " " \o locals.name
                           \o " " \o syntax,
                 options |-> parser.options \cup cls.options]
           r == parse_args(p.options, argv, "exit")
       IN  /\ parser' = p
           /\ IF r.exc # ""
              THEN /\ Exit(Uncaught(r.exc))
                   /\ UNCHANGED <<options, args, stdout>>
              ELSE /\ options' = r.val.options
                   /\ args' = r.val.args
                   /\ IF r.val.options["help"] = True
                      THEN /\ stdout' = Append(stdout, Help(p))
                           /\ Exit(Exited(PyInt(0)))
                      ELSE /\ pc' = "client"
                           /\ UNCHANGED <<stdout, status>>
    /\ UNCHANGED <<config, disk, _commands, argv, locals, apis, available_groups,
                   available_commands, cmd, log, calls, outcome>>

    /\ UNCHANGED others
Client(class, url, token) == [class |-> class, url |-> url, token |-> token]

\* ClientFor with the API 'synnefo' left out of the first test.
ClientFor_NovaOnly(api, self) ==
    IF api \in {Key("nova")}
    THEN Client("ComputeClient", flat_get(self, "compute_url"),
                flat_get(self, "token"))
    ELSE IF api \in {Key("glance"), Key("plankton")}
    THEN Client("ImagesClient", flat_get(self, "images_url"),
                flat_get(self, "token"))
    ELSE None

\* Lines 641-648: the client of a command of this API, None when the
\* command gets none.
ClientFor(api, self) ==
    IF api \in {Key("nova"), Key("synnefo")}
    THEN Client("ComputeClient", flat_get(self, "compute_url"),
                flat_get(self, "token"))
    ELSE IF api \in {Key("glance"), Key("plankton")}
    THEN Client("ImagesClient", flat_get(self, "images_url"),
                flat_get(self, "token"))
    ELSE None

\* Lines 637-648
BuildClient ==
    /\ pc = "client"
    /\ LET cls == Resolved IN
       cmd' = [cls |-> cls, client |-> ClientFor(cls.api, config)]
    /\ pc' = "invoke"
    /\ UNCHANGED <<config, disk, _commands, argv, parser, options, args, locals, apis,
                   available_groups, available_commands, stdout, log, calls,
                   outcome, status>>

    /\ UNCHANGED others
\* Caught without the except clause of the TypeError.
Caught_NoTypeError(r, p) ==
    CASE r.exc = "" ->
            [status |-> Exited(r.val), out |-> r.out, log |-> <<>>]
      [] r.exc = "ClientError" ->
            [status |-> Exited(PyInt(2)), out |-> <<>>,
             log |-> <<[level |-> "error", msg |-> ClientError.message],
                       [level |-> "info", msg |-> ClientError.details]>>]
      [] OTHER ->
            [status |-> Uncaught(r.exc), out |-> <<>>, log |-> <<>>]

\* Caught with the ClientError handled as the TypeError is.
Caught_ClientErrorAsUsage(r, p) ==
    CASE r.exc = "" ->
            [status |-> Exited(r.val), out |-> r.out, log |-> <<>>]
      [] r.exc \in {"TypeError", "ClientError"} ->
            [status |-> Exited(PyInt(1)), out |-> <<Help(p)>>, log |-> <<>>]
      [] OTHER ->
            [status |-> Uncaught(r.exc), out |-> <<>>, log |-> <<>>]

\* Lines 650-658: what main makes of the call r of cmd.main, with the
\* parser p: the value returned, the usage and 1 for a TypeError, the two
\* log records and 2 for a ClientError; any other exception leaves main.
Caught(r, p) ==
    CASE r.exc = "" ->
            [status |-> Exited(r.val), out |-> r.out, log |-> <<>>]
      [] r.exc = "TypeError" ->
            [status |-> Exited(PyInt(1)), out |-> <<Help(p)>>, log |-> <<>>]
      [] r.exc = "ClientError" ->
            [status |-> Exited(PyInt(2)), out |-> <<>>,
             log |-> <<[level |-> "error", msg |-> ClientError.message],
                       [level |-> "info", msg |-> ClientError.details]>>]
      [] OTHER ->
            [status |-> Uncaught(r.exc), out |-> <<>>, log |-> <<>>]

Invoke ==
    /\ pc = "invoke"
    /\ \E remote \in Remotes(cmd.cls) :
        LET r == Handler(cmd.cls, SubSeq(args, 4, Len(args)), config, options,
                         remote)
            c == Caught(r, parser)
        IN  /\ calls' = calls + 1
            /\ client_calls' = client_calls + r.client_calls
            /\ outcome' = IF r.exc = "" THEN "return" ELSE r.exc
            /\ config' = r.config
            /\ stdout' = stdout \o c.out
            /\ log' = log \o r.log \o c.log
            /\ Exit(c.status)
    /\ UNCHANGED <<disk, _commands, argv, parser, options, args, locals, apis,
                   available_groups, available_commands, cmd>>
    /\ UNCHANGED <<regvars, clientvars, filevars, runvars>>
----------------------------------------------------------------------------
(* The runs of main *)

\* At most MaxArgv words follow the program name, at most MaxOpts of them
\* options.
MaxArgv == 4
MaxOpts == 2

\* The positional words tried: a group, then a command, then arguments.
Words(n) ==
    CASE n = 1 -> {"config", "server", "glance", "nosuch"}
      [] n = 2 -> {"get", "list", "info", "addr", "nosuch"}
      [] OTHER -> {"42", "abc"}

Count(seq, S) == Cardinality({i \in DOMAIN seq : seq[i] \in S})

\* The words that may follow the command line a.
NextWords(a) ==
    (IF Count(a, Typed) < MaxOpts THEN Typed ELSE {})
    \cup Words(Len(a) - Count(a, Typed))

\* The configuration files tried: none, an unreadable one, and files that
\* set apis.
ApisFile(words) ==
    Config_write([_sections |-> [global |-> [apis |-> Str(words)]],
                  _overrides |-> EmptyDict])
MainFiles == {NoFile, Corrupt, ApisFile(<<>>), ApisFile(<<"nova">>)}

Idle ==
    /\ parser = [usage |-> "", options |-> {}]
    /\ options = EmptyDict
    /\ args = <<>>
    /\ locals = [group |-> "", name |-> ""]
    /\ apis = <<>>
    /\ available_groups = <<>>
    /\ available_commands = <<>>
    /\ cmd = NoCmd
    /\ stdout = <<>>
    /\ log = <<>>
    /\ calls = 0
    /\ outcome = ""
    /\ status = Running
    /\ registered = <<>>
    /\ client = NoClient
    /\ requests = <<>>
    /\ reply = NoReply
    /\ mode = ""
    /\ prior = NoFile
    /\ runs = <<>>
    /\ client_calls = 0

Init ==
    /\ argv = <<"kamaki">>
    /\ disk \in MainFiles
    /\ config = NoConfig
    /\ _commands = Imported
    /\ pc = "shell"
    /\ Idle

\* The command line is typed, one word at a time, before main starts.
Type(t) ==
    /\ pc = "shell"
    /\ Len(argv) <= MaxArgv
    /\ t \in NextWords(argv)
    /\ argv' = Append(argv, t)
    /\ UNCHANGED <<config, disk, _commands, pc, parser, options, args, locals,
                   apis, available_groups, available_commands, cmd, stdout,
                   log, calls, outcome, status>>

    /\ UNCHANGED others
AllWords == Typed \cup Words(1) \cup Words(2) \cup Words(3)

Next ==
    \/ \E t \in AllWords : Type(t)
    \/ Start
    \/ Enable
    \/ ResolveGroup
    \/ ResolveCommand
    \/ Parse2
    \/ BuildClient
    \/ Invoke

Spec == Init /\ [][Next]_vars

----------------------------------------------------------------------------
(* The calls on a Config object of kamaki/cli/config.py *)

Sections == {"global", "config", "custom"}
Options == {"colors", "token", "Token", "cli", "extra"}

\* The sections, options and values the calls are tried with.
CallSections == {"global", "custom"}
CallOptions == {"token", "Token"}
SetValues == {Str(<<"p1">>), Str(<<"p2">>)}
OverrideValues == {Str(<<"o1">>), None}

ConfigFiles ==
    {NoFile,
     {HEADER, SectionLine("global"),
      OptionLine("global", "token", Str(<<"p1">>))},
     {HEADER, SectionLine("custom"),
      OptionLine("custom", "Token", Str(<<"p2">>))}}

InitConfig ==
    /\ disk \in ConfigFiles
    /\ config = Config_init(disk)
    /\ _commands = Imported
    /\ argv = <<>>
    /\ pc = "idle"
    /\ Idle

Set(s, k, x) ==
    /\ pc = "idle"
    /\ config' = Config_set(config, s, k, x)
    /\ UNCHANGED <<disk, mainvars>>

    /\ UNCHANGED others
RemoveOption(s, k) ==
    /\ pc = "idle"
    /\ config' = Config_remove_option(config, s, k)
    /\ UNCHANGED <<disk, mainvars>>

    /\ UNCHANGED others
OverrideOption(s, k, x) ==
    /\ pc = "idle"
    /\ config' = Config_override(config, s, k, x)
    /\ UNCHANGED <<disk, mainvars>>

    /\ UNCHANGED others
Write ==
    /\ pc = "idle"
    /\ disk' = Config_write(config)
    /\ UNCHANGED <<config, mainvars>>

    /\ UNCHANGED others
SetStep == \E s \in CallSections, k \in CallOptions, x \in SetValues :
                Set(s, k, x)
RemoveStep == \E s \in CallSections, k \in CallOptions : RemoveOption(s, k)
OverrideStep ==
    \E s \in CallSections, k \in CallOptions, x \in OverrideValues :
        OverrideOption(s, k, x)

NextConfig ==
    \/ SetStep
    \/ RemoveStep
    \/ OverrideStep
    \/ Write

SpecConfig == InitConfig /\ [][NextConfig]_vars

----------------------------------------------------------------------------
(* The configuration layers *)

get(section, option) == Config_get(config, DEFAULTS, section, option)

HasOverride(self, s, k) ==
    /\ s \in DOMAIN self._overrides
    /\ k \in DOMAIN self._overrides[s]
    /\ self._overrides[s][k] # None
HasPersisted(self, s, k) ==
    /\ s \in DOMAIN self._sections
    /\ optionxform(k) \in DOMAIN self._sections[s]
HasDefault(s, k) == s \in DOMAIN DEFAULTS /\ k \in DOMAIN DEFAULTS[s]

\* C1: for every section and key, get gives the override when one is set
\* (an override of None counts as none), else the persisted value when the
\* section and key are in the persisted layer, else the built-in default of
\* the section and key, else None.
C1_Precedence ==
    \A s \in Sections, k \in Options :
        get(s, k) =
            IF HasOverride(config, s, k) THEN config._overrides[s][k]
            ELSE IF HasPersisted(config, s, k)
                 THEN config._sections[s][optionxform(k)]
            ELSE IF HasDefault(s, k) THEN DEFAULTS[s][k]
            ELSE None

\* A key with three different values in the three layers resolves to the
\* override.
C1_Witness ==
    \E s \in Sections, k \in Options :
        /\ HasOverride(config, s, k) /\ HasPersisted(config, s, k)
        /\ HasDefault(s, k)
        /\ config._overrides[s][k] # config._sections[s][optionxform(k)]
        /\ config._sections[s][optionxform(k)] # DEFAULTS[s][k]
        /\ config._overrides[s][k] # DEFAULTS[s][k]
        /\ get(s, k) = config._overrides[s][k]

\* The values that only an override can bring in.
OverrideOnly == OverrideValues \ (SetValues \cup {None})

\* C2: set and remove_option leave every override and the file as they
\* are, so a key with an override resolves to it before and after them;
\* override leaves the persisted layer and the file as they are; and no
\* line of the file ever holds a value that only an override brought in,
\* write putting there the persisted layer alone.
C2_Isolation ==
    /\ [](\A l \in disk : l.value \notin OverrideOnly)
    /\ [][/\ (SetStep \/ RemoveStep) =>
                /\ config'._overrides = config._overrides
                /\ disk' = disk
                /\ \A s \in Sections, k \in Options :
                    HasOverride(config, s, k) =>
                        /\ get(s, k) = config._overrides[s][k]
                        /\ get(s, k)' = config._overrides[s][k]
          /\ OverrideStep =>
                /\ config'._sections = config._sections
                /\ disk' = disk
          /\ Write =>
                /\ config' = config
                /\ \A s \in Sections, k \in Options :
                    (\E l \in disk' : l.line = "=" /\ l.section = s
                                      /\ optionxform(l.key) = optionxform(k))
                    <=> HasPersisted(config, s, k)
                /\ \A l \in disk' :
                    l.line = "=" =>
                        l.value = config._sections[l.section][optionxform(l.key)]
         ]_vars

\* A key whose override stands while its persisted value was set and
\* written to the file.
C2_Witness ==
    \E s \in CallSections, k \in CallOptions :
        /\ HasOverride(config, s, k)
        /\ HasPersisted(config, s, k)
        /\ config._overrides[s][k] \in OverrideOnly
        /\ get(s, k) = config._overrides[s][k]
        /\ OptionLine(s, optionxform(k), config._sections[s][optionxform(k)])
                \in disk
        /\ disk \notin ConfigFiles

----------------------------------------------------------------------------
(* The runs of the dispatcher *)

Range(seq) == {seq[i] : i \in DOMAIN seq}
Status(n) == [code |-> n, raised |-> ""]
Ended == pc = "exit" /\ disk # Corrupt

\* The words of the apis entry the configuration holds before any option
\* overrides it, and the values of the --api options of the command line.
ConfiguredApis == split(flat_get(LoadConfig(disk).config, "apis")).val
ApiFlags ==
    IF "apis" \in DOMAIN options /\ options["apis"] # None
    THEN options["apis"].v ELSE <<>>
\* The enabled APIs as the specification has them: both together.
EnabledApis == ConfiguredApis \o ApiFlags

\* The commands of a group, and the groups, that a set of enabled APIs lets
\* through.
Enabled(cls, S) == cls.api = None \/ (cls.api # None /\ cls.api.v \in {<<a>> : a \in S})
VisibleCommands(group, S) ==
    {item.key : item \in {i \in Range(Lookup(_commands, group)) :
                                Enabled(i.value, S)}}
VisibleGroups(S) ==
    {g \in Range(Keys(_commands)) : VisibleCommands(g, S) # {}}

GroupUsage == "%prog <group> <command> [options]"
CommandUsage(group) == "%prog " \o group \o " <command> [options]"

\* C3: a run with no group word prints the usage and the visible groups
\* and exits 0; with a group that is not visible, the same and exits 1;
\* with a visible group and no command word, the usage of the group and
\* its visible commands and exits 0; with a command that is not visible in
\* the group, the same and exits 1; and in the four cases no client is
\* built and no handler called.
C3_Resolution ==
    Ended =>
        LET groups == VisibleGroups(Range(EnabledApis))
            names(g) == VisibleCommands(Key(g), Range(EnabledApis))
            listed(usage, kind, items, code) ==
                /\ Len(stdout) = 2
                /\ stdout[1] = [print |-> "help", usage |-> usage,
                                items |-> <<>>]
                /\ stdout[2].print = kind
                /\ Range(stdout[2].items) = items
                /\ status = Status(code)
                /\ cmd = NoCmd
                /\ calls = 0
        IN  /\ Len(args) < 2 => listed(GroupUsage, "groups", groups, 0)
            /\ (Len(args) >= 2 /\ Key(args[2]) \notin groups) =>
                    listed(GroupUsage, "groups", groups, 1)
            /\ (Len(args) = 2 /\ Key(args[2]) \in groups) =>
                    listed(CommandUsage(args[2]), "commands",
                           names(args[2]), 0)
            /\ (Len(args) >= 3 /\ Key(args[2]) \in groups
                    /\ args[3] \notin names(args[2])) =>
                    listed(CommandUsage(args[2]), "commands",
                           names(args[2]), 1)

\* The group and the command of the run resolved to an available command.
ResolvedVisible ==
    /\ InSeq(Key(locals.group), available_groups)
    /\ InSeq(locals.name, available_commands)

\* C4: a run with --help among its arguments builds no client and calls no
\* handler, and when its group and command resolve to an available command
\* it prints the usage of that command and exits 0.
C4_Help ==
    (Ended /\ "--help" \in Range(argv)) =>
        /\ calls = 0
        /\ cmd = NoCmd
        /\ ResolvedVisible =>
                /\ stdout = <<[print |-> "help",
                               usage |-> "%prog " \o locals.group \o " "
                                         \o locals.name \o " "
                                         \o (IF Resolved.syntax # ""
                                             THEN Resolved.syntax \o " "
                                             ELSE "") \o "[options]",
                               items |-> <<>>]>>
                /\ status = Status(0)

\* The handler was called with fewer words than its required parameters or
\* more than all its parameters.
ArityMismatch ==
    /\ calls = 1
    /\ LET n == Len(args) - 3 IN
        \/ n < Len(cmd.cls.params) - cmd.cls.ndefaults
        \/ n > Len(cmd.cls.params)

\* C5: when the handler is called with a number of words that does not fit
\* its signature, the run prints the usage of the command and exits 1, and
\* no exception leaves main.
C5_Arity ==
    (pc = "exit" /\ ArityMismatch) =>
        /\ stdout = <<[print |-> "help", usage |-> parser.usage,
                       items |-> <<>>]>>
        /\ parser.usage = "%prog " \o locals.group \o " " \o locals.name
                          \o " " \o (IF cmd.cls.syntax # ""
                                     THEN cmd.cls.syntax \o " " ELSE "")
                          \o "[options]"
        /\ status = Status(1)
        /\ log = <<>>

\* Both ways of not fitting: too few words and too many.
C5_Witness ==
    /\ pc = "exit" /\ ArityMismatch
    /\ status = Status(1)
    /\ Len(args) - 3 > Len(cmd.cls.params)

\* C6: when the handler raises a ClientError the run logs its message as
\* an error, then its details as information, and exits 2; the exception
\* does not leave main.
C6_ClientError ==
    (pc = "exit" /\ calls = 1 /\ outcome = "ClientError") =>
        /\ log = <<[level |-> "error", msg |-> ClientError.message],
                   [level |-> "info", msg |-> ClientError.details]>>
        /\ status = Status(2)
        /\ stdout = <<>>

C6_Witness ==
    /\ pc = "exit" /\ calls = 1 /\ outcome = "ClientError"
    /\ cmd.client # None
    /\ status = Status(2)

\* C7: every run that calls a handler ends with the status 0, 1 or 2,
\* whatever the call comes to, 2 only when the client reports a failure,
\* and no exception leaves main.
C7_ExitStatus ==
    (pc = "exit" /\ calls = 1) =>
        /\ status.raised = ""
        /\ status.code \in {0, 1, 2}
        /\ status.code = 2 => outcome = "ClientError"

\* C8: the available commands of a group are those of its commands with no
\* API or with an enabled one, and the available groups those with such a
\* command; a command with no API is available with no API enabled.
C8_Visibility ==
    /\ (pc \in {"group", "command", "parse", "client", "invoke"}
            \/ available_groups # <<>>) =>
            /\ Range(available_groups) = VisibleGroups(Range(apis))
            /\ \A g \in Range(Keys(_commands)) :
                (\E item \in Range(Lookup(_commands, g)) :
                        item.value.api = None)
                    => g \in Range(available_groups)
    /\ (pc \in {"command", "parse", "client", "invoke"}
            \/ available_commands # <<>>) =>
            /\ Range(available_commands) =
                    VisibleCommands(Key(locals.group), Range(apis))
            /\ \A item \in Range(Lookup(_commands, Key(locals.group))) :
                    item.value.api = None
                        => item.key \in Range(available_commands)

\* With no API enabled, a command with no API is about to be called, in a
\* registry that holds commands of APIs too.
C8_Witness ==
    /\ pc = "invoke"
    /\ apis = <<>>
    /\ cmd.cls.api = None
    /\ Range(available_groups) = {Key("config")}
    /\ Cardinality(VisibleGroups({"nova"})) > 1

\* C9: the enabled APIs are the words of the configured list together with
\* the values of every --api option of the command line.
C9_Merge ==
    (disk # Corrupt /\ pc \notin {"shell", "override"}) =>
        /\ status.raised # "AttributeError"
        /\ Range(apis) = Range(EnabledApis)
        /\ Range(available_groups) = VisibleGroups(Range(EnabledApis))

\* C10: when the configuration fails to load, the run logs the error and
\* exits 1 at once: no option overrides anything, no group or command is
\* resolved or listed, no client is built and no handler is called.
C10_ConfigError ==
    (disk = Corrupt /\ pc # "shell") =>
        /\ pc = "exit"
        /\ status = Status(1)
        /\ log = <<[level |-> "error", msg |-> "ConfigError"]>>
        /\ config._overrides = EmptyDict
        /\ locals = [group |-> "", name |-> ""]
        /\ apis = <<>>
        /\ available_groups = <<>>
        /\ available_commands = <<>>
        /\ cmd = NoCmd
        /\ calls = 0
        /\ stdout = <<>>

\* The file fails to load in a run whose command line names a command, an
\* argument and an API.
C10_Witness ==
    /\ disk = Corrupt
    /\ pc = "exit"
    /\ status = Status(1)
    /\ Len(args) >= 3
    /\ ApiFlags # <<>>

\* The API tags tried on the construction of the client: those of the
\* registry, one of another family and one unknown.
ApiTags == {None, Key("nova"), Key("synnefo"), Key("glance"),
            Key("plankton"), Key("storage"), Key("nosuch")}

\* C11: a command of the API nova or synnefo gets a compute client of the
\* compute_url and the token the configuration resolves, one of glance or
\* plankton an images client of the images_url and the token, and a command
\* of no API or of any other gets no client.
C11_ClientFactory ==
    LET expected(api) ==
            CASE api \in {Key("nova"), Key("synnefo")} ->
                    [class |-> "ComputeClient",
                     url |-> flat_get(config, "compute_url"),
                     token |-> flat_get(config, "token")]
              [] api \in {Key("glance"), Key("plankton")} ->
                    [class |-> "ImagesClient",
                     url |-> flat_get(config, "images_url"),
                     token |-> flat_get(config, "token")]
              [] OTHER -> None
    IN  /\ (pc = "invoke" \/ calls = 1) =>
                /\ cmd.cls # None
                /\ cmd.cls = Resolved
                /\ cmd.client = expected(cmd.cls.api)
        /\ (pc # "invoke" /\ calls = 0) => cmd = NoCmd
        /\ pc \in {"client", "invoke"} =>
                \A api \in ApiTags : ClientFor(api, config) = expected(api)

\* A run built a compute client for a command of synnefo, with the default
\* url and token.
C11_Witness ==
    /\ pc = "invoke"
    /\ cmd.cls.api = Key("synnefo")
    /\ cmd.client = [class |-> "ComputeClient",
                     url |-> CONFIG_DEFAULTS.compute_url,
                     token |-> CONFIG_DEFAULTS.token]

----------------------------------------------------------------------------
(* The registrations: the decorator applied to classes, one after the      *)
(* other, from an empty registry.                                          *)

MaxRegs == 3
MaxParams == 3

RegNames == {<<"g", "a">>, <<"g", "b">>, <<"solo">>}
RegMains ==
    {[params |-> <<>>, ndefaults |-> 0],
     [params |-> <<<<"server", "id">>, <<"key">>>>, ndefaults |-> 1]}
RegArgs ==
    {[group |-> None, name |-> None],
     [group |-> Key("h"), name |-> None],
     [group |-> None, name |-> Key("b")]}

\* The parameter lists of main tried on the syntax, and the syntax
\* arguments of the decorator.
ParamNames == {<<"a">>, <<"server", "id">>}
ParamLists == UNION {[1..n -> ParamNames] : n \in 0..MaxParams}
SyntaxArgs == {None, Key(""), Key("<x> [y z]")}

InitRegistry ==
    /\ _commands = <<>>
    /\ config = NoConfig
    /\ disk = NoFile
    /\ argv = <<>>
    /\ pc = "import"
    /\ Idle

\* @command(api, group, name, description, syntax) on the class c
Register(c, group, name, description, syntax) ==
    /\ pc = "import"
    /\ _commands' = decorator(_commands, c, group, name, description, syntax)
    /\ registered' = Append(registered,
                            [c |-> c, group |-> group, name |-> name,
                             description |-> description, syntax |-> syntax])
    /\ UNCHANGED <<config, disk, argv, pc, parser, options, args, locals,
                   apis, available_groups, available_commands, cmd, stdout,
                   log, calls, outcome, status, clientvars, filevars,
                   runvars, callvars>>

RegisterStep ==
    /\ Len(registered) < MaxRegs
    /\ \E n \in RegNames, m \in RegMains, a \in RegArgs,
          api \in {None, Key("nova")} :
        /\ api = None <=> m.params = <<>>
        /\ Register(Class(n, api, m.params, m.ndefaults, {}, {}, "doc"),
                    a.group, a.name, None, None)

NextRegistry == RegisterStep

SpecRegistry == InitRegistry /\ [][NextRegistry]_vars

\* One class is decorated, with any parameter list and syntax argument.
SyntaxStep ==
    /\ registered = <<>>
    /\ \E p \in ParamLists, syntax \in SyntaxArgs :
        \E nd \in 0..Len(p) :
            Register(Class(<<"g", "a">>, None, p, nd, {}, {}, "doc"),
                     None, None, None, syntax)

NextSyntax == SyntaxStep

SpecSyntax == InitRegistry /\ [][NextSyntax]_vars

----------------------------------------------------------------------------
(* The registry after the registrations *)

RECURSIVE Dedup(_)
\* The sequence with only the first occurrence of each of its elements.
Dedup(seq) ==
    IF seq = <<>> THEN <<>>
    ELSE LET init == Dedup(SubSeq(seq, 1, Len(seq) - 1))
             last == seq[Len(seq)]
         IN  IF last \in Range(init) THEN init ELSE Append(init, last)

\* The group and the name a registration is filed under.
RegGroup(r) ==
    IF r.group \notin {None, Key("")} THEN r.group
    ELSE IF Len(r.c.__name__) > 1 THEN Key(r.c.__name__[1]) ELSE None
RegName(r) ==
    IF r.name \notin {None, Key("")} THEN r.name.v[1]
    ELSE IF Len(r.c.__name__) > 1
         THEN Join(SubSeq(r.c.__name__, 2, Len(r.c.__name__)), "_")
         ELSE r.c.__name__[1]

AllApis == <<"nova", "synnefo", "glance", "plankton">>

\* C12: after any registrations the registry holds under each group and
\* name the class registered last under them, a second registration of a
\* pair replacing the first; its groups, and the names of each group, come
\* in the order of their first registration, and the listings of the help
\* follow that order.
C12_Registry ==
    LET groups == Dedup([i \in DOMAIN registered |->
                            RegGroup(registered[i])])
        of(g) == SelectSeq(registered, LAMBDA r : RegGroup(r) = g)
        names(g) == Dedup([i \in DOMAIN of(g) |-> RegName(of(g)[i])])
        last(g, n) ==
            LET rs == SelectSeq(of(g), LAMBDA r : RegName(r) = n)
            IN  rs[Len(rs)]
    IN  /\ Keys(_commands) = groups
        /\ AvailableGroups(_commands, AllApis) = groups
        /\ \A g \in Range(groups) :
            /\ Keys(Lookup(_commands, g)) = names(g)
            /\ Commands(g, AvailableCommands(_commands, g, AllApis)).items
                    = names(g)
            /\ \A n \in Range(names(g)) :
                LET entry == Lookup(Lookup(_commands, g), n) IN
                /\ entry.group = g
                /\ entry.name = n
                /\ entry.api = last(g, n).c.api
                /\ entry.params = last(g, n).c.params
                /\ entry.ndefaults = last(g, n).c.ndefaults

\* A pair is registered, then another of the same group, then the first
\* pair again with another class: the first pair stays first and holds the
\* later class.
C12_Witness ==
    /\ Len(registered) = 3
    /\ RegGroup(registered[1]) = RegGroup(registered[2])
    /\ RegName(registered[1]) # RegName(registered[2])
    /\ RegGroup(registered[3]) = RegGroup(registered[1])
    /\ RegName(registered[3]) = RegName(registered[1])
    /\ registered[3].c.params # registered[1].c.params
    /\ Keys(Lookup(_commands, RegGroup(registered[1])))
            = <<RegName(registered[1]), RegName(registered[2])>>
    /\ Lookup(Lookup(_commands, RegGroup(registered[1])),
              RegName(registered[1])).params = registered[3].c.params

\* The words of a parameter's name, a blank between them.
Spaced(words) == Join(words, " ")

RECURSIVE Rendered(_, _, _)
\* The parameters from the i-th on, each in <> when it is one of the first
\* n and in [] when not, a blank before each but the first of all.
Rendered(params, n, i) ==
    IF i > Len(params) THEN ""
    ELSE (IF i > 1 THEN " " ELSE "")
         \o (IF i <= n THEN "<" \o Spaced(params[i]) \o ">"
             ELSE "[" \o Spaced(params[i]) \o "]")
         \o Rendered(params, n, i + 1)

\* C13: with no syntax argument the syntax of a command is its required
\* parameters in declared order, each as <name> with blanks for the
\* underscores, then its optional ones, each as [name], one blank between
\* them, and the empty string when main has no parameter; a syntax
\* argument is kept as it is.
C13_Syntax ==
    /\ GenerateSyntax(<<<<"a">>, <<"b">>>>, 1) = "<a> [b]"
    /\ GenerateSyntax(<<>>, 0) = ""
    /\ \A i \in DOMAIN registered :
        LET r == registered[i]
            entry == Lookup(Lookup(_commands, RegGroup(r)), RegName(r))
        IN  entry.syntax =
                IF r.syntax = None
                THEN Rendered(r.c.params, Len(r.c.params) - r.c.ndefaults, 1)
                ELSE r.syntax.v[1]

\* A class whose main has a required parameter with an underscore and an
\* optional one got its syntax generated.
C13_Witness ==
    /\ Len(registered) = 1
    /\ registered[1].syntax = None
    /\ registered[1].c.params = <<<<"server", "id">>, <<"a">>>>
    /\ registered[1].c.ndefaults = 1
    /\ Lookup(Lookup(_commands, Key("g")), "a").syntax = "<server id> [a]"

----------------------------------------------------------------------------
(* kamaki/clients: the storage and the compute client.  Their base class,  *)
(* Client, with the verbs head, get, put, post and delete and the          *)
(* exception ClientError(message, status, details), is not among the       *)
(* sources: a verb is modelled as one HTTP request that returns the        *)
(* response when its status is one of success and otherwise raises a       *)
(* ClientError with a message and that status.                             *)

\* ClientError(message) and ClientError(message, status)
NoStatus == [given |-> FALSE, code |-> 0]
StatusCode(n) == [given |-> TRUE, code |-> n]
Error(message, st) == [message |-> message, status |-> st]

Done(reqs) == [exc |-> "", error |-> None, requests |-> reqs]
Failed(error, reqs) == [exc |-> "ClientError", error |-> error,
                        requests |-> reqs]

\* self.<verb>(path, success=...) when the server answers with status
Request(verb, success, status_code) ==
    LET req == <<[verb |-> verb, success |-> success]>> IN
    IF status_code \in success THEN Done(req)
    ELSE Failed(Error("status", StatusCode(status_code)), req)

\* not x, of None and of a string
Not(x) == x = None \/ x.v = <<>>

assert_account(self) ==
    IF Not(self.account)
    THEN Failed(Error("Please provide an account", NoStatus), <<>>)
    ELSE Done(<<>>)

\* assert_container that does not look at the account.
assert_container_Alone(self) ==
    IF Not(self.container)
    THEN Failed(Error("Please provide a container", NoStatus), <<>>)
    ELSE Done(<<>>)

assert_container(self) ==
    LET a == assert_account(self) IN
    IF a.exc # "" THEN a
    ELSE IF Not(self.container)
    THEN Failed(Error("Please provide a container", NoStatus), <<>>)
    ELSE Done(<<>>)

\* A method of a client: what it asserts first ("account", "container" or
\* nothing), the verb of its request with the statuses it passes as
\* success, the errors it raises itself on a status among these, and what
\* it does after ("meta": it looks for the key in the headers, raises a
\* ClientError with 404 when it is not there and posts the others).
Method(name, asserts, verb, success, raises, then) ==
    [name |-> name, asserts |-> asserts, verb |-> verb, success |-> success,
     raises |-> raises, then |-> then]
Nothing == [n \in {} |-> Error("", NoStatus)]

StorageMethods == {
    Method("get_account_info", "account", "HEAD", {204, 401},
           401 :> Error("No authorization", NoStatus), ""),
    Method("replace_account_meta", "account", "POST", {202}, Nothing, ""),
    Method("delete_account_meta", "account", "HEAD", {204, 401},
           401 :> Error("No authorization", NoStatus), "meta"),
    Method("create_container", "account", "PUT", {201, 202},
           202 :> Error("Container already exists", StatusCode(202)), ""),
    Method("get_container_info", "account", "HEAD", {204, 404},
           404 :> Error("Container does not exist", StatusCode(404)), ""),
    Method("delete_container", "account", "DELETE", {204, 404, 409},
           (404 :> Error("Container does not exist", StatusCode(404)))
           @@ (409 :> Error("Container is not empty", StatusCode(409))), ""),
    Method("list_containers", "account", "GET", {200, 204}, Nothing, ""),
    Method("create_object", "container", "PUT", {201}, Nothing, ""),
    Method("create_directory", "container", "PUT", {201}, Nothing, ""),
    Method("get_object_info", "container", "HEAD", {200}, Nothing, ""),
    Method("get_object_meta", "container", "HEAD", {200}, Nothing, ""),
    Method("delete_object_meta", "container", "HEAD", {200}, Nothing,
           "meta"),
    Method("replace_object", "container", "POST", {202}, Nothing, ""),
    Method("get_object", "container", "GET", {200}, Nothing, ""),
    Method("delete_object", "container", "DELETE", {204, 404},
           404 :> Error("Object not found", StatusCode(404)), ""),
    Method("list_objects", "container", "GET", {200, 204, 404},
           404 :> Error("Incorrect account for that container",
                        StatusCode(404)), ""),
    Method("list_objects_in_path", "container", "GET", {200, 204, 404},
           404 :> Error("Incorrect account for that container",
                        StatusCode(404)), "") }

ComputeMethods ==
    {Method(n, "", "GET", {200}, Nothing, "") :
        n \in {"list_servers", "get_server_details", "get_server_metadata",
               "list_flavors", "get_flavor_details", "list_images",
               "get_image_details", "get_image_metadata"}}
    \cup {Method(n, "", "POST", {202}, Nothing, "") :
        n \in {"create_server", "reboot_server"}}
    \cup {Method(n, "", "PUT", {204}, Nothing, "") :
        n \in {"update_server_name"}}
    \cup {Method(n, "", "DELETE", {204}, Nothing, "") :
        n \in {"delete_server", "delete_server_metadata", "delete_image",
               "delete_image_metadata"}}
    \cup {Method(n, "", "PUT", {201}, Nothing, "") :
        n \in {"create_server_metadata", "create_image_metadata"}}
    \cup {Method(n, "", "POST", {201}, Nothing, "") :
        n \in {"update_server_metadata", "update_image_metadata"}}

\* The call of the method m of the client self, when the server answers
\* the first request with the status s1, the second with s2, and the
\* headers of the first answer hold the key (has) or not.
Invocation(m, self, s1, s2, has) ==
    LET pre == CASE m.asserts = "account" -> assert_account(self)
                 [] m.asserts = "container" -> assert_container(self)
                 [] OTHER -> Done(<<>>)
        r1 == Request(m.verb, m.success, s1)
        r2 == Request("POST", {202}, s2)
    IN  IF pre.exc # "" THEN pre
        ELSE IF r1.exc # "" THEN r1
        ELSE IF s1 \in DOMAIN m.raises THEN Failed(m.raises[s1], r1.requests)
        ELSE IF m.then = "" THEN r1
        ELSE IF ~has
        THEN Failed(Error("not found", StatusCode(404)), r1.requests)
        ELSE IF r2.exc # ""
        THEN Failed(r2.error, r1.requests \o r2.requests)
        ELSE Done(r1.requests \o r2.requests)

\* The statuses the server answers with, and the accounts and containers
\* a storage client is built with.
Statuses == {200, 201, 202, 204, 401, 404, 409, 500}
Accounts == {None, Str(<<>>), Str(<<"account">>)}
Containers == {None, Str(<<>>), Str(<<"container">>)}

Clients ==
    {[class |-> "StorageClient", account |-> a, container |-> c] :
        a \in Accounts, c \in Containers}
    \cup {[class |-> "ComputeClient", account |-> None, container |-> None]}

Methods(self) ==
    IF self.class = "StorageClient" THEN StorageMethods ELSE ComputeMethods

InitClient ==
    /\ _commands = <<>>
    /\ config = NoConfig
    /\ disk = NoFile
    /\ argv = <<>>
    /\ pc = "client"
    /\ parser = [usage |-> "", options |-> {}]
    /\ options = EmptyDict
    /\ args = <<>>
    /\ locals = [group |-> "", name |-> ""]
    /\ apis = <<>>
    /\ available_groups = <<>>
    /\ available_commands = <<>>
    /\ cmd = NoCmd
    /\ stdout = <<>>
    /\ log = <<>>
    /\ calls = 0
    /\ outcome = ""
    /\ status = Running
    /\ registered = <<>>
    /\ client \in Clients
    /\ requests = <<>>
    /\ reply = NoReply
    /\ mode = ""
    /\ prior = NoFile
    /\ runs = <<>>
    /\ client_calls = 0

\* A method of the client is called.
Call ==
    /\ client # NoClient
    /\ \E m \in Methods(client), s1 \in Statuses, s2 \in Statuses,
          has \in BOOLEAN :
        LET r == Invocation(m, client, s1, s2, has) IN
        /\ requests' = r.requests
        /\ reply' = [method |-> m.name, exc |-> r.exc, error |-> r.error]
    /\ UNCHANGED <<config, disk, _commands, argv, pc, parser, options, args,
                   locals, apis, available_groups, available_commands, cmd,
                   stdout, log, calls, outcome, status, regvars, client,
                   filevars, runvars, callvars>>

NextClient == Call

SpecClient == InitClient /\ [][NextClient]_vars

----------------------------------------------------------------------------
(* The calls of the clients *)

Unset(x) == x = None \/ x = Str(<<>>)

\* The operations of the storage client on the objects of a container.
ObjectOperations ==
    {"create_object", "create_directory", "get_object_info",
     "get_object_meta", "delete_object_meta", "replace_object", "get_object",
     "delete_object", "list_objects", "list_objects_in_path"}
AccountOperations ==
    {"get_account_info", "replace_account_meta", "delete_account_meta",
     "create_container", "get_container_info", "delete_container",
     "list_containers"}

\* C14: a call of any operation of a storage client with no account, and
\* of any operation on objects with no container, raises a ClientError
\* with no HTTP request issued; with neither account nor container the
\* error is the one of the account.
C14_Preconditions ==
    (client.class = "StorageClient" /\ reply # NoReply) =>
        /\ reply.method \in ObjectOperations \cup AccountOperations
        /\ Unset(client.account) =>
            /\ reply.exc = "ClientError"
            /\ reply.error.message = "Please provide an account"
            /\ requests = <<>>
        /\ (~Unset(client.account) /\ Unset(client.container)
                /\ reply.method \in ObjectOperations) =>
            /\ reply.exc = "ClientError"
            /\ reply.error.message = "Please provide a container"
            /\ requests = <<>>

\* An operation on objects that starts with another operation was called
\* on a client with neither account nor container.
C14_Witness ==
    /\ client.class = "StorageClient"
    /\ client.account = None /\ client.container = Str(<<>>)
    /\ reply.method = "delete_object_meta"
    /\ reply.exc = "ClientError"
    /\ reply.error.message = "Please provide an account"
    /\ requests = <<>>

\* C15: a call of a method of the compute or the storage client that
\* passes the method's assertions issues exactly one HTTP request, and
\* when it raises a ClientError the error carries a message and the
\* status of the response.
C15_OneCall ==
    (reply # NoReply /\ requests # <<>>) =>
        /\ Len(requests) = 1
        /\ reply.exc = "ClientError" =>
            /\ reply.error.message # ""
            /\ reply.error.status.given

----------------------------------------------------------------------------
(* Config.write, step by step: the file is opened for writing, its mode is *)
(* changed, the header and then the sections of the parser are written,    *)
(* and the file is closed.  The process may be stopped between any two     *)
(* steps.                                                                  *)

\* The modes a file is found with, and those open() creates one with (0666
\* less the umask).
FileModes == {"0644", "0600"}
CreateModes == {"0666", "0644", "0600"}

InitWrite ==
    /\ disk \in ConfigFiles
    /\ \E s \in CallSections, k \in CallOptions, x \in SetValues :
        config \in {Config_init(disk), Config_set(Config_init(disk), s, k, x)}
    /\ _commands = <<>>
    /\ argv = <<>>
    /\ pc = "idle"
    /\ parser = [usage |-> "", options |-> {}]
    /\ options = EmptyDict
    /\ args = <<>>
    /\ locals = [group |-> "", name |-> ""]
    /\ apis = <<>>
    /\ available_groups = <<>>
    /\ available_commands = <<>>
    /\ cmd = NoCmd
    /\ stdout = <<>>
    /\ log = <<>>
    /\ calls = 0
    /\ outcome = ""
    /\ status = Running
    /\ registered = <<>>
    /\ client = NoClient
    /\ requests = <<>>
    /\ reply = NoReply
    /\ IF disk = NoFile THEN mode = "" ELSE mode \in FileModes
    /\ prior = disk
    /\ runs = <<>>
    /\ client_calls = 0

WriteFrame ==
    UNCHANGED <<config, _commands, argv, parser, options, args, locals, apis,
                available_groups, available_commands, cmd, stdout, log,
                calls, outcome, status, regvars, clientvars, runvars,
                callvars>>

\* Line 116, open(self.path, 'w'): the file is created if there is none,
\* and emptied if there is one, its mode unchanged.
WriteOpen ==
    /\ pc = "idle"
    /\ prior' = disk
    /\ disk' = {}
    /\ IF disk = NoFile THEN mode' \in CreateModes ELSE mode' = mode
    /\ pc' = "open"
    /\ WriteFrame

\* WriteChmod that leaves the mode as it is.
WriteChmod_Skipped ==
    /\ pc = "open"
    /\ pc' = "chmod"
    /\ UNCHANGED <<disk, mode, prior>>
    /\ WriteFrame

\* Line 117, os.chmod(self.path, 0600)
WriteChmod ==
    /\ pc = "open"
    /\ mode' = "0600"
    /\ pc' = "chmod"
    /\ UNCHANGED <<disk, prior>>
    /\ WriteFrame

\* Line 118, f.write(HEADER.lstrip())
WriteHeader ==
    /\ pc = "chmod"
    /\ disk' = disk \cup {HEADER}
    /\ pc' = "header"
    /\ UNCHANGED <<mode, prior>>
    /\ WriteFrame

\* Line 119, RawConfigParser.write(self, f): one more line of the sections
WriteLine ==
    /\ pc = "header"
    /\ \E l \in RawConfigParser_write(config) \ disk : disk' = disk \cup {l}
    /\ UNCHANGED <<pc, mode, prior>>
    /\ WriteFrame

\* The end of the with statement: the file is closed.
WriteClose ==
    /\ pc = "header"
    /\ RawConfigParser_write(config) \subseteq disk
    /\ pc' = "written"
    /\ UNCHANGED <<disk, mode, prior>>
    /\ WriteFrame

\* The process is stopped in the middle of the write.
Interrupt ==
    /\ pc \in {"open", "chmod", "header"}
    /\ pc' = "stopped"
    /\ UNCHANGED <<disk, mode, prior>>
    /\ WriteFrame

NextWrite ==
    \/ WriteOpen
    \/ WriteChmod
    \/ WriteHeader
    \/ WriteLine
    \/ WriteClose
    \/ Interrupt

SpecWrite == InitWrite /\ [][NextWrite]_vars

\* C16: at every step of a write, and so wherever it is stopped, the file
\* holds either all it held before the write or all the new content.
C16_Atomic ==
    (pc \in {"open", "chmod", "header", "written", "stopped"}
        /\ prior # NoFile) =>
        disk \in {prior, Config_write(config)}

\* C17: the mode of the file is 0600 before the header or any line is
\* written to it, and when the write is complete, whether the write
\* created the file or found it.
C17_Mode ==
    /\ (pc \in {"open", "chmod", "header", "written", "stopped"}
            /\ disk # {}) => mode = "0600"
    /\ pc \in {"chmod", "header", "written"} => mode = "0600"
    /\ pc = "written" => disk = Config_write(config)

\* A write that created the file is complete.
C17_Witness ==
    /\ pc = "written"
    /\ prior = NoFile
    /\ mode = "0600"
    /\ disk = Config_write(config)
    /\ \E l \in disk : l.line = "="

----------------------------------------------------------------------------
(* Runs of main one after the other, on the same file *)

MaxRuns == 2

\* The command lines of the runs.
RunLines ==
    {<<"kamaki", "config", "set", k, x>> : k \in {"token", "extra"},
                                           x \in {"42", "abc"}}
    \cup {<<"kamaki", "config", "get", k>> : k \in {"token", "extra"}}
    \cup {<<"kamaki", "config", "del", "token">>,
          <<"kamaki", "server", "list">>}

InitRuns ==
    /\ argv = <<"kamaki">>
    /\ disk \in {NoFile, ApisFile(<<"nova">>)}
    /\ config = NoConfig
    /\ _commands = Imported
    /\ pc = "shell"
    /\ Idle

\* The whole command line is typed.
TypeLine ==
    /\ pc = "shell"
    /\ argv = <<"kamaki">>
    /\ argv' \in RunLines
    /\ UNCHANGED <<config, disk, _commands, pc, parser, options, args, locals,
                   apis, available_groups, available_commands, cmd, stdout,
                   log, calls, outcome, status>>
    /\ UNCHANGED others

\* The process has ended; another is started on the same file, and nothing
\* but the file is left of the first.
Rerun ==
    /\ pc = "exit"
    /\ Len(runs) + 1 < MaxRuns
    /\ runs' = Append(runs, [argv |-> argv, status |-> status,
                             stdout |-> stdout])
    /\ argv' = <<"kamaki">>
    /\ config' = NoConfig
    /\ pc' = "shell"
    /\ parser' = [usage |-> "", options |-> {}]
    /\ options' = EmptyDict
    /\ args' = <<>>
    /\ locals' = [group |-> "", name |-> ""]
    /\ apis' = <<>>
    /\ available_groups' = <<>>
    /\ available_commands' = <<>>
    /\ cmd' = NoCmd
    /\ stdout' = <<>>
    /\ log' = <<>>
    /\ calls' = 0
    /\ outcome' = ""
    /\ status' = Running
    /\ client_calls' = 0
    /\ UNCHANGED <<disk, _commands, regvars, clientvars, filevars>>

NextRuns ==
    \/ TypeLine
    \/ Start
    \/ Enable
    \/ ResolveGroup
    \/ ResolveCommand
    \/ Parse2
    \/ BuildClient
    \/ Invoke
    \/ Rerun

SpecRuns == InitRuns /\ [][NextRuns]_vars

\* C18: when a run of config set K V has ended, the run of config get K
\* that follows it on the same file, with no option overriding K, prints V.
C18_RoundTrip ==
    \A k \in {"token", "extra"}, x \in {"42", "abc"} :
        (/\ pc = "exit"
         /\ runs # <<>>
         /\ runs[Len(runs)].argv = <<"kamaki", "config", "set", k, x>>
         /\ runs[Len(runs)].status = Status(0)
         /\ argv = <<"kamaki", "config", "get", k>>)
        => stdout = <<[print |-> "value", usage |-> "",
                       items |-> <<Str(<<x>>)>>]>>

----------------------------------------------------------------------------
(* The order of the steps of a run *)

\* The configuration is loaded and every key of CONFIG_DEFAULTS has as
\* override the value its option has in the preliminary parse.
Overridden ==
    /\ "global" \in DOMAIN config._overrides
    /\ \A i \in DOMAIN ConfigKeys :
        /\ ConfigKeys[i] \in DOMAIN config._overrides["global"]
        /\ config._overrides["global"][ConfigKeys[i]] =
                parse_args(MainOptions, argv, "ignore").val
                    .options[ConfigKeys[i]]
GroupResolved == InSeq(Key(locals.group), available_groups)
CommandResolved ==
    InSeq(locals.name, AvailableCommands(_commands, Key(locals.group), apis))
\* The parse with the options of the command is done, and no help asked.
ParsedNoHelp ==
    /\ {OPTIONS[o].dest : o \in Resolved.options} \subseteq DOMAIN options
    /\ options["help"] = False
ClientBuilt ==
    /\ cmd.cls = Resolved
    /\ cmd.cls.api \in {Key("nova"), Key("synnefo"), Key("glance"),
                        Key("plankton")} => cmd.client # None

\* C19: the handler is called at most once in a run, and only after, in
\* this order, the configuration is loaded and overridden, the group is
\* resolved as available, the command is resolved as available in it, the
\* command line is parsed with the command's options and no --help, and
\* the client of a command of a compute or images API is built; the run
\* ends with the call.
C19_Order ==
    /\ [](/\ calls \in {0, 1}
          /\ calls = 1 => pc = "exit"
          /\ pc \in {"group", "command", "parse", "client", "invoke"}
                => Overridden
          /\ pc \in {"command", "parse", "client", "invoke"} => GroupResolved
          /\ pc \in {"parse", "client", "invoke"} => CommandResolved
          /\ pc \in {"client", "invoke"} => ParsedNoHelp
          /\ pc = "invoke" => ClientBuilt)
    /\ [][/\ calls' # calls =>
                /\ calls' = calls + 1
                /\ pc = "invoke" /\ pc' = "exit"
                /\ Overridden /\ GroupResolved /\ CommandResolved
                /\ ParsedNoHelp /\ ClientBuilt
          /\ (pc' = "invoke" /\ pc # "invoke") => pc = "client"
          /\ (pc' = "client" /\ pc # "client") => pc = "parse"
          /\ (pc' = "parse" /\ pc # "parse") => pc = "command"
          /\ (pc' = "command" /\ pc # "command") => pc = "group"
          /\ (pc' = "group" /\ pc # "group") => pc = "override"
          /\ (pc' = "override" /\ pc # "override") =>
                (pc = "shell" /\ disk # Corrupt)
          /\ pc = "exit" => (pc' = "exit" /\ calls' = calls)
         ]_vars

\* The handler of a command with a client was called after a parse that
\* took an option of the command.
C19_Witness ==
    /\ pc = "exit"
    /\ calls = 1
    /\ outcome = "return"
    /\ cmd.client # None
    /\ "detail" \in DOMAIN options
    /\ options["detail"] = True

----------------------------------------------------------------------------
(* The overrides of the options that were not given *)

\* The options as the preliminary parse of the command line has them.
Flags == parse_args(MainOptions, argv, "ignore").val.options

\* C20: once main has overridden every key of the configuration with the
\* value of its option, a key whose option was not given has the override
\* None and resolves to the value of the file when the file has the key
\* and to the default when not, and a key whose option was given resolves
\* to the value given.
C20_Transparent ==
    (disk # Corrupt /\ pc \notin {"shell", "override"}) =>
        /\ "global" \in DOMAIN config._overrides
        /\ \A i \in DOMAIN ConfigKeys :
            LET key == ConfigKeys[i]
                persisted == "global" \in DOMAIN config._sections
                             /\ key \in DOMAIN config._sections["global"]
            IN  /\ key \in DOMAIN config._overrides["global"]
                /\ config._overrides["global"][key] = Flags[key]
                /\ Flags[key] = None =>
                    flat_get(config, key) =
                        IF persisted THEN config._sections["global"][key]
                        ELSE CONFIG_DEFAULTS[key]
                /\ Flags[key] # None => flat_get(config, key) = Flags[key]

\* No option was given: apis resolves to the value of the file, another
\* than the default, and token to the default.
C20_Witness ==
    /\ pc = "invoke"
    /\ disk = ApisFile(<<"nova">>)
    /\ config._overrides["global"]["apis"] = None
    /\ config._overrides["global"]["token"] = None
    /\ flat_get(config, "apis") = Str(<<"nova">>)
    /\ flat_get(config, "apis") # CONFIG_DEFAULTS["apis"]
    /\ flat_get(config, "token") = CONFIG_DEFAULTS["token"]

----------------------------------------------------------------------------
(* The runs of server create *)

\* At most MaxPersonalities --personality options are given.
MaxPersonalities == 2

Personalities ==
    {w \in DOMAIN TOKENS : TOKENS[w].opt = "--personality"}

PersonalityLists ==
    UNION {[1..n -> Personalities] : n \in 0..MaxPersonalities}

\* The command lines tried: server create with a name, a flavor and an
\* image, or with the name alone, the personalities after them or before;
\* and two commands whose main has no return statement.
CreateLines ==
    {<<"kamaki", "server", "create", "srv", f, "img">> \o ps :
        f \in {"42", "abc"}, ps \in PersonalityLists}
    \cup {<<"kamaki", "server", "create">> \o ps \o <<"srv", "42", "img">> :
            ps \in PersonalityLists}
    \cup {<<"kamaki", "server", "create", "srv">> \o ps :
            ps \in PersonalityLists}
    \cup {<<"kamaki", "server", "list">>,
          <<"kamaki", "config", "get", "token">>}

InitCreate ==
    /\ argv = <<"kamaki">>
    /\ disk \in {NoFile, ApisFile(<<"nova">>)}
    /\ config = NoConfig
    /\ _commands = Imported
    /\ pc = "shell"
    /\ Idle

\* The whole command line is typed.
TypeCreate ==
    /\ pc = "shell"
    /\ argv = <<"kamaki">>
    /\ argv' \in CreateLines
    /\ UNCHANGED <<config, disk, _commands, pc, parser, options, args, locals,
                   apis, available_groups, available_commands, cmd, stdout,
                   log, calls, outcome, status>>
    /\ UNCHANGED others

NextCreate ==
    \/ TypeCreate
    \/ Start
    \/ Enable
    \/ ResolveGroup
    \/ ResolveCommand
    \/ Parse2
    \/ BuildClient
    \/ Invoke

SpecCreate == InitCreate /\ [][NextCreate]_vars

\* The personalities of the command line whose path is empty or names no
\* file
Rejected ==
    {i \in DOMAIN argv :
        /\ argv[i] \in Personalities
        /\ LET path == split_comma(TOKENS[argv[i]].value)[1] IN
           path = "" \/ path \notin Existing}

CreateRun == Len(argv) >= 3 /\ argv[2] = "server" /\ argv[3] = "create"

\* C21: when the handler has returned normally, the exit status is the
\* value it returned, 0 for None: 1 and no call on the client, nothing
\* printed and an error logged, when server create was given a personality
\* whose path is empty or names no file, and 0 for every other return.
C21_ReturnValue ==
    (pc = "exit" /\ outcome = "return") =>
        /\ calls = 1
        /\ IF CreateRun /\ Rejected # {}
           THEN /\ status = Status(1)
                /\ client_calls = 0
                /\ stdout = <<>>
                /\ \E i \in DOMAIN log : log[i].level = "error"
           ELSE /\ status = Status(0)
                /\ cmd.cls.api # None => client_calls = 1

\* server create, its second personality naming no file, has returned 1
\* without a call on the client.
C21_Witness ==
    /\ pc = "exit"
    /\ outcome = "return"
    /\ argv = <<"kamaki", "server", "create", "srv", "42", "img",
                "--personality=motd", "--personality=nofile">>
    /\ status = Status(1)
    /\ client_calls = 0

====
